---- MODULE Spec2Model ----
(***************************************************************************)
(* Model of src/main.py: the Semantic Scholar paper cache of a roster of   *)
(* authors (update_cache), the retrying request helper (return_request),   *)
(* the BibTeX renderer (get_bibtex) and the cache file (write / load).     *)
(*                                                                         *)
(* Python values are modelled as follows.                                  *)
(*   dict          a function whose DOMAIN is the set of keys present      *)
(*   list          a sequence                                              *)
(*   None (int)    NoneInt                                                 *)
(*   None (dict)   NoneDict                                                *)
(*   None (date)   NoneDate; a date string "Y-m-d" is the triple <<Y,m,d>> *)
(*   durations     milliseconds                                            *)
(*   an exception  a record [type, args]                                   *)
(***************************************************************************)
EXTENDS Integers, Sequences, FiniteSets, TLC

VARIABLES
    call,               \* a single call of return_request / get_bibtex: its inputs
    ret,                \* ... and what it returned or raised
    authors,            \* people.json, in file order
    upstream,           \* what the remote API answers
    disk,               \* the cache file at cache_path
    paper_cache,        \* OrderedDict paper_id -> paper_dict, as a sequence of [key, value]
    seen_papers,        \* set of paper ids seen for some author in this run
    pc,                 \* position in update_cache
    author_no,          \* index in authors of the author being processed
    papers_for_author,  \* the items of the author's list not yet iterated
    paper_id,           \* the paper id of the item being processed
    raised,             \* the exception that ended the run, or NoException
    run,                \* how many times update_cache has been started
    requested,          \* network log of this run: [authors, papers, anthology] ids requested
    last_item,          \* what the loop body did so far with the item iterated last
    writes,             \* number of times write() rewrote the cache file in this run
    prev_disk,          \* the cache file as the previous completed run left it
    loaded              \* paper_cache as the load of this run left it

vars == <<call, ret, authors, upstream, disk, paper_cache, seen_papers, pc, author_no,
          papers_for_author, paper_id, raised, run, requested, last_item, writes,
          prev_disk, loaded>>

callVars == <<call, ret>>
runVars == <<authors, upstream, disk, paper_cache, seen_papers, pc, author_no,
             papers_for_author, paper_id, raised, run, requested, last_item, writes,
             prev_disk, loaded>>

-----------------------------------------------------------------------------
(* Bounds of the model *)

MaxItems == 2       \* longest paper list an author request returns
MaxCache == 2       \* most records in the cache file a run starts from
MaxRuns == 2        \* update_cache is started at most this many times in a row
MaxRecords == 4     \* most records in a cache file convert_to_bib is called on

-----------------------------------------------------------------------------
(* Python's None for the int-valued and dict-valued fields, and truthiness *)

NoneInt == -1
NoneDict == [py_none |-> TRUE]
NoneDate == <<>>

Truthy(n) == n # NoneInt /\ n # 0

NoException == [type |-> "none"]

Range(s) == {s[i] : i \in DOMAIN s}

\* the exceptions the code lets escape
KeyError(key) == [type |-> "KeyError", args |-> <<key>>]
ConnectionError == [type |-> "ConnectionError", args |-> <<"requests.get">>]

-----------------------------------------------------------------------------
(* return_request: lines 36-64 *)

NetFail == -1               \* requests.get raised instead of returning a response
MaxAttempts == 10           \* while attempt_no < 10
RetryDelayMs == 500         \* time.sleep(0.5) after another non-200 status
PacingMs == 500             \* time.sleep(0.5) before decoding the 200 response

\* a schedule that starts at one
Pow2_FromOne(n) == 2 ^ (n - 1)

\* 2 ** attempt_no
Pow2(n) == 2 ^ n

\* a backoff that does not grow
BackoffMs_Constant(attempt_no) == 1000

\* time.sleep(2 ** attempt_no) after a 429
BackoffMs(attempt_no) == 1000 * Pow2(attempt_no)

ExhaustedMessage == "Could not get a response from the server after {attempt_no} attempts"

\* The statuses the remote answers with, in order, to the attempts of one call:
\* the ones before the last are failures the loop retries.
Retryable == {429, 500}

RECURSIVE SeqsOf(_, _)
SeqsOf(S, n) ==
    IF n = 0 THEN {<<>>}
    ELSE {Append(s, x) : s \in SeqsOf(S, n - 1), x \in S}

SeqsUpTo(S, n) == UNION {SeqsOf(S, k) : k \in 0..n}

\* the scripts of a remote that would answer 200 to the attempt after a
\* request that failed
Recovering == {s \o <<NetFail, 200>> : s \in SeqsUpTo(Retryable, 2)}

Scripts ==
    {Append(s, last) : s \in SeqsUpTo(Retryable, MaxAttempts - 2), last \in {200, NetFail}}
        \cup SeqsOf(Retryable, MaxAttempts - 1)
        \cup Recovering

\* One iteration of the while loop and the rest of the call. sleeps logs every
\* time.sleep as [line, ms]; requests counts the requests.get calls.
RECURSIVE request_loop(_, _, _, _, _)
request_loop(attempt_no, sleep_time, script, body, sleeps) ==
    IF ~(attempt_no < MaxAttempts)
    THEN [raised |-> [type |-> "Exception", args |-> <<ExhaustedMessage>>],
          requests |-> attempt_no - 1, sleeps |-> sleeps,
          status_code |-> script[attempt_no - 1]]
    ELSE LET status_code == script[attempt_no] IN
         IF status_code = NetFail
         THEN [raised |-> ConnectionError,
               requests |-> attempt_no, sleeps |-> sleeps, status_code |-> status_code]
         ELSE IF status_code = 200
         THEN [raised |-> NoException, data |-> body,
               requests |-> attempt_no,
               sleeps |-> Append(sleeps, [line |-> 62, ms |-> PacingMs]),
               status_code |-> status_code]
         ELSE IF status_code = 429
         THEN request_loop(attempt_no + 1, Pow2(attempt_no), script, body,
                           Append(sleeps, [line |-> 53, ms |-> BackoffMs(attempt_no)]))
         ELSE request_loop(attempt_no + 1, sleep_time, script, body,
                           Append(sleeps, [line |-> 56, ms |-> RetryDelayMs]))

return_request(script, body) == request_loop(1, 1, script, body, <<>>)

-----------------------------------------------------------------------------
(* get_year: lines 188-196, get_bibtex: lines 211-258 *)

get_year(cache_dict) ==
    IF cache_dict["year"] # NoneInt
    THEN cache_dict["year"]
    ELSE IF cache_dict["publicationDate"] # NoneDate
    THEN cache_dict["publicationDate"][1]       \* strptime(...).year
    ELSE NoneInt

\* A URL is the template it was formatted from and the id formatted into it.
ANTHOLOGY_TEMPLATE == "https://aclanthology.org/{}.bib"
S2_PAPER_URL == "https://www.semanticscholar.org/paper/{}"

Format(template, id) == [template |-> template, id |-> id]

\* PUB_TEMPLATE.format(...) % ident, lines 199-208 and 251-256: the text is
\* modelled by the values in its slots; the month line is present only for a
\* month that is not None.
PUB_TEMPLATE(title, author_list, year, month, journal, url, ident) ==
    [entry |-> "@inproceedings", key |-> ident, title |-> title,
     author |-> author_list, year |-> year,
     month |-> IF month # NoneInt THEN <<month>> ELSE <<>>,
     booktitle |-> journal, url |-> url]

\* a status check that never succeeds
anthology_ok_never(response) == FALSE

\* line 245: response.status_code == 200
anthology_ok(response) == response.status_code = 200

\* anthology is what aclanthology.org answers if it is asked: [status_code, text],
\* status_code = NetFail when the request itself fails. requests lists the URLs
\* the call requested.
get_bibtex(cache_dict, anthology) ==
    LET title == cache_dict["title"]
        venue == cache_dict["venue"]
        journal == IF venue = "" /\ cache_dict["journal"] # NoneDict
                      /\ "name" \in DOMAIN cache_dict["journal"]
                   THEN cache_dict["journal"]["name"]
                   ELSE venue
        url == cache_dict["url"]
        year == get_year(cache_dict)
        month == IF cache_dict["publicationDate"] # NoneDate
                 THEN cache_dict["publicationDate"][2]      \* strptime(...).month
                 ELSE NoneInt
        author_list == [i \in DOMAIN cache_dict["authors"] |-> cache_dict["authors"][i]["name"]]
        externalIds == cache_dict["externalIds"]
    IN  IF "CorpusId" \notin DOMAIN externalIds
        THEN [raised |-> KeyError("CorpusId"), requests |-> <<>>]
        ELSE LET ident == externalIds["CorpusId"]
                 has_acl == "ACL" \in DOMAIN externalIds
                 \* line 240 rebinds url
                 url_used == IF has_acl THEN Format(ANTHOLOGY_TEMPLATE, externalIds["ACL"]) ELSE url
                 requests == IF has_acl THEN <<url_used>> ELSE <<>>
             IN  IF has_acl /\ anthology.status_code = NetFail
                 THEN [raised |-> ConnectionError, requests |-> requests]
                 ELSE IF has_acl /\ anthology_ok(anthology)
                 THEN [raised |-> NoException, requests |-> requests,
                       value |-> [text |-> anthology.text]]
                 ELSE [raised |-> NoException, requests |-> requests,
                       value |-> PUB_TEMPLATE(title, author_list, year, month,
                                              journal, url_used, ident)]

-----------------------------------------------------------------------------
(* Paper records (the JSON objects of the paper-details endpoint) *)

ExternalIds(keys) == [k \in keys |-> IF k = "ACL" THEN "2020.acl-main.1" ELSE "218971783"]

Paper(id, venue, journal, year, date, names, keys) ==
    [paperId |-> id, title |-> "Title", venue |-> venue, journal |-> journal,
     year |-> year, publicationDate |-> date,
     authors |-> [i \in DOMAIN names |-> [name |-> names[i]]],
     url |-> Format(S2_PAPER_URL, id), externalIds |-> ExternalIds(keys)]

WithBibtex(paper_dict, bibtex) == paper_dict @@ ("bibtex" :> bibtex)

AnthologyAnswers ==
    {[status_code |-> 200, text |-> "@inproceedings{anthology-a}"],
     [status_code |-> 200, text |-> "@inproceedings{anthology-b}"],
     [status_code |-> 404, text |-> "Not Found"],
     [status_code |-> NetFail, text |-> ""]}

\* the records get_bibtex is called on, one call at a time
RenderRecords ==
    {Paper("p1", venue, journal, year, date, names, keys) :
        venue \in {"", "ACL"},
        journal \in {NoneDict, [name |-> "TACL"], [volume |-> "8"]},
        year \in {NoneInt, 2020},
        date \in {NoneDate, <<2019, 7, 28>>},
        names \in {<<"A. Author">>, <<"A. Author", "B. Author">>},
        keys \in SUBSET {"ACL", "CorpusId"}}

-----------------------------------------------------------------------------
(* The OrderedDict paper_cache, write (lines 67-80) and the load (lines 117-124) *)

Keys(od) == {od[i].key : i \in DOMAIN od}

Get(od, key) == (CHOOSE e \in Range(od) : e.key = key).value

\* od[key] = value: a key already present keeps its position
SetItem(od, key, value) ==
    IF key \in Keys(od)
    THEN [i \in DOMAIN od |-> IF od[i].key = key THEN [key |-> key, value |-> value] ELSE od[i]]
    ELSE Append(od, [key |-> key, value |-> value])

\* an eviction pass that removes nothing
Filter_KeepAll(od, keep) == od

RECURSIVE Filter(_, _)
Filter(od, keep) ==
    IF od = <<>> THEN <<>>
    ELSE IF Head(od).key \in keep
         THEN <<Head(od)>> \o Filter(Tail(od), keep)
         ELSE Filter(Tail(od), keep)

\* papers = [paper for paper in paper_cache.values()]; json.dump(papers, f)
write(od) == [kind |-> "json", papers |-> [i \in DOMAIN od |-> od[i].value]]

\* for paper_dict in json_data: paper_cache[paper_dict["paperId"]] = paper_dict
RECURSIVE load_papers(_, _)
load_papers(od, json_data) ==
    IF json_data = <<>> THEN od
    ELSE load_papers(SetItem(od, Head(json_data)["paperId"], Head(json_data)), Tail(json_data))

load(file) == IF file.kind = "absent" THEN <<>> ELSE load_papers(<<>>, file.papers)

-----------------------------------------------------------------------------
(* pull_existing_bibfiles: lines 83-95, convert_to_bib: lines 261-287 *)

FileNotFoundError == [type |-> "FileNotFoundError", args |-> <<"cache_path">>]

\* json.load of a file that holds no JSON document
JSONDecodeError == [type |-> "JSONDecodeError", args |-> <<"Expecting value">>]

\* response is what www.cs.jhu.edu answers for the one URL of bibfile
pull_existing_bibfiles(response) ==
    IF response.status_code = NetFail
    THEN [raised |-> ConnectionError]
    ELSE [raised |-> NoException,
          value |-> IF response.status_code = 200 THEN <<response.text>> ELSE <<>>]

\* list({v["paperId"]: v for v in cache}.values()): a paperId keeps the
\* position of its first record and the value of its last
DropDuplicates(cache) ==
    LET od == load_papers(<<>>, cache) IN [i \in DOMAIN od |-> od[i].value]

\* an insertion that puts an item before the items of the same year
InsertByYear_BeforeTies(cache, item) ==
    LET ahead == SelectSeq(cache, LAMBDA x : get_year(x) > get_year(item))
        behind == SelectSeq(cache, LAMBDA x : get_year(x) <= get_year(item))
    IN  ahead \o <<item>> \o behind

\* sorted(..., reverse=True) is stable: an item goes behind the items of its
\* year that were ahead of it in the list
InsertByYear(cache, item) ==
    LET ahead == SelectSeq(cache, LAMBDA x : get_year(x) >= get_year(item))
        behind == SelectSeq(cache, LAMBDA x : get_year(x) < get_year(item))
    IN  ahead \o <<item>> \o behind

RECURSIVE SortByYear(_, _)
SortByYear(done, cache) ==
    IF cache = <<>> THEN done
    ELSE SortByYear(InsertByYear(done, Head(cache)), Tail(cache))

\* print(bib.rstrip(), file=fout): the text without its trailing whitespace,
\* on a line of its own
Printed(bib) == [rstrip |-> bib]

\* the entries the loop of lines 280-282 prints before it ends or fails
RECURSIVE PrintEntries(_, _)
PrintEntries(cache, printed) ==
    IF cache = <<>> THEN [raised |-> NoException, entries |-> printed]
    ELSE IF "bibtex" \notin DOMAIN Head(cache)
    THEN [raised |-> KeyError("bibtex"), entries |-> printed]
    ELSE PrintEntries(Tail(cache), Append(printed, Printed(Head(cache)["bibtex"])))

\* The result is what the call raised and references_generated.bib as the
\* call left it: the entries printed and what line 287 appended (<<>> while
\* nothing was, else the text of bibs); papers is the list sorted at line 277.
convert_to_bib(file, response) ==
    IF file.kind = "absent"
    THEN [raised |-> FileNotFoundError, bibfile |-> [kind |-> "absent"]]
    ELSE IF file.kind = "empty"
    THEN [raised |-> JSONDecodeError, bibfile |-> [kind |-> "absent"]]
    ELSE LET unique == DropDuplicates(file.papers)
             dated == SelectSeq(unique, LAMBDA item : get_year(item) # NoneInt)
             cache == SortByYear(<<>>, dated)
             loop == PrintEntries(cache, <<>>)
             bibs == pull_existing_bibfiles(response)
         IN  IF loop.raised # NoException
             THEN [raised |-> loop.raised, papers |-> cache,
                   bibfile |-> [kind |-> "bib", entries |-> loop.entries, appended |-> <<>>]]
             ELSE IF bibs.raised # NoException
             THEN [raised |-> bibs.raised, papers |-> cache,
                   bibfile |-> [kind |-> "bib", entries |-> loop.entries, appended |-> <<>>]]
             ELSE [raised |-> NoException, papers |-> cache,
                   bibfile |-> [kind |-> "bib", entries |-> loop.entries,
                                appended |-> <<bibs.value>>]]

-----------------------------------------------------------------------------
(* Single calls of return_request and get_bibtex *)

\* the records of the cache files convert_to_bib is called on: years 2020,
\* 2019, 2020 and None, a second record of p2 whose year comes from its date,
\* and a record of p3 an older version stored without bibtex
AssemblerRecords ==
    LET Rec(id, year, date) == Paper(id, "ACL", NoneDict, year, date, <<"A. Author">>, {"CorpusId"})
    IN  {WithBibtex(Rec("p1", 2020, NoneDate), [text |-> "@inproceedings{p1}"]),
         WithBibtex(Rec("p2", 2019, NoneDate), [text |-> "@inproceedings{p2}"]),
         WithBibtex(Rec("p3", 2020, NoneDate), [text |-> "@inproceedings{p3}"]),
         WithBibtex(Rec("p4", NoneInt, NoneDate), [text |-> "@inproceedings{p4}"]),
         WithBibtex(Rec("p2", NoneInt, <<2021, 3, 1>>), [text |-> "@inproceedings{p2-dated}"]),
         Rec("p3", 2020, NoneDate)}

FilesToConvert ==
    {[kind |-> "absent"], [kind |-> "empty"]}
        \cup {[kind |-> "json", papers |-> s] : s \in SeqsUpTo(AssemblerRecords, MaxRecords)}

LegacyAnswers ==
    {[status_code |-> 200, text |-> "@article{legacy}"],
     [status_code |-> 404, text |-> "Not Found"],
     [status_code |-> NetFail, text |-> ""]}

NotReturned == [raised |-> [type |-> "pending"]]

\* the URLs return_request is called with: the template of line 32 formatted
\* with an author id, which may be the empty string
AUTHOR_DETAILS_URL ==
    "https://api.semanticscholar.org/graph/v1/author/{}?fields=papers,papers.year"

RequestUrls == {Format(AUTHOR_DETAILS_URL, id) : id \in {"a1", ""}}

Calls ==
    {[fn |-> "return_request", url |-> u, script |-> s, body |-> b] :
        u \in RequestUrls, s \in Scripts, b \in {"json-a", "json-b"}}
    \cup
    {[fn |-> "get_bibtex", cache_dict |-> r, anthology |-> a] :
        r \in RenderRecords, a \in AnthologyAnswers}
    \cup
    {[fn |-> "convert_to_bib", file |-> f, legacy |-> l] :
        f \in FilesToConvert, l \in LegacyAnswers}

\* update_cache is not running
Idle ==
    /\ authors = <<>>
    /\ upstream = [fixed |-> FALSE]
    /\ disk = [kind |-> "absent"]
    /\ paper_cache = <<>>
    /\ seen_papers = {}
    /\ pc = "idle"
    /\ author_no = 0
    /\ papers_for_author = <<>>
    /\ paper_id = ""
    /\ raised = NoException
    /\ run = 0
    /\ requested = [authors |-> {}, papers |-> {}, anthology |-> {}]
    /\ last_item = [action |-> "none"]
    /\ writes = 0
    /\ prev_disk = [kind |-> "absent"]
    /\ loaded = <<>>

CallInit ==
    /\ call \in Calls
    /\ ret = NotReturned
    /\ Idle

CallReturnRequest ==
    /\ call.fn = "return_request"
    /\ ret = NotReturned
    /\ ret' = return_request(call.script, call.body)
    /\ UNCHANGED <<call, runVars>>

CallGetBibtex ==
    /\ call.fn = "get_bibtex"
    /\ ret = NotReturned
    /\ ret' = get_bibtex(call.cache_dict, call.anthology)
    /\ UNCHANGED <<call, runVars>>

CallConvertToBib ==
    /\ call.fn = "convert_to_bib"
    /\ ret = NotReturned
    /\ ret' = convert_to_bib(call.file, call.legacy)
    /\ UNCHANGED <<call, runVars>>

CallNext == CallReturnRequest \/ CallGetBibtex \/ CallConvertToBib

CallSpec == CallInit /\ [][CallNext]_vars

-----------------------------------------------------------------------------
(* The tenure window, lines 138-147 *)

\* a window that excludes its own first year
before_start_inclusive(start_year, paper_dict) ==
    /\ Truthy(start_year)
    /\ "year" \in DOMAIN paper_dict
    /\ Truthy(paper_dict["year"])
    /\ start_year >= paper_dict["year"]

before_start(start_year, paper_dict) ==
    /\ Truthy(start_year)
    /\ "year" \in DOMAIN paper_dict
    /\ Truthy(paper_dict["year"])
    /\ start_year > paper_dict["year"]

after_end(end_year, paper_dict) ==
    /\ Truthy(end_year)
    /\ "year" \in DOMAIN paper_dict
    /\ Truthy(paper_dict["year"])
    /\ end_year < paper_dict["year"]

-----------------------------------------------------------------------------
(* The inputs of update_cache: people.json, the cache file, the remote API *)

PaperIds == {"p1", "p2"}

Author(name, start_year, end_year) ==
    [name |-> name, s2id |-> name, start_year |-> start_year, end_year |-> end_year]

Rosters ==
    {<<Author("a1", 2015, 2020), Author("a2", NoneInt, NoneInt)>>,
     <<Author("a1", 2015, NoneInt), Author("a2", NoneInt, 2020)>>,
     <<Author("a1", NoneInt, 2020), Author("a2", 2015, NoneInt)>>,
     <<Author("a1", NoneInt, NoneInt), Author("a2", 2015, 2020)>>}

\* an item of an author's paper list: "year" may be missing, null or a year
Item(id) == [k \in {"paperId"} |-> id]
ItemOf(id, year) == [paperId |-> id, year |-> year]

PlainItems == {Item(id) : id \in PaperIds}

DatedItems == {ItemOf("p1", year) : year \in {NoneInt, 2014, 2015, 2020, 2021}}

\* The year of an item is read only under a tenure bound (lines 140 and 145), so
\* the lists of an author without bounds carry no years.
PaperLists(author_info) ==
    IF Truthy(author_info.start_year) \/ Truthy(author_info.end_year)
    THEN SeqsUpTo(PlainItems \cup DatedItems, MaxItems)
    ELSE SeqsUpTo(PlainItems, MaxItems)

\* The paperId of the record the paper-details endpoint sends is the service's
\* primary id of the paper; nothing in lines 161-163 compares it with the id
\* requested. Here p1 may have been merged into p2 upstream.
PrimaryIds(id) == IF id = "p1" THEN {"p1", "p2"} ELSE {id}

\* what the paper-details endpoint may answer to a request for id
Details(id) ==
    {Paper(primary, "ACL", NoneDict, 2020, NoneDate, <<"A. Author">>, keys) :
        primary \in PrimaryIds(id), keys \in {{"CorpusId"}, {"ACL", "CorpusId"}, {"ACL"}}}

\* the records an earlier run (of this or of an older version, which stored no
\* bibtex) left in the cache file
StoredPapers ==
    LET New(id, keys) == Paper(id, "ACL", NoneDict, 2020, NoneDate, <<"A. Author">>, keys)
    IN  {WithBibtex(New(id, {"CorpusId"}), [text |-> "@inproceedings{stored}"]) : id \in PaperIds}
            \cup {New(id, keys) : id \in PaperIds, keys \in {{"ACL", "CorpusId"}, {"ACL"}}}

CacheFiles ==
    {[kind |-> "absent"]}
        \cup {[kind |-> "json", papers |-> s] : s \in SeqsUpTo(StoredPapers, MaxCache)}

\* the cache files of at most one record, with its bibtex
RenderedCacheFiles ==
    {f \in CacheFiles :
        f.kind = "json" => /\ Len(f.papers) <= 1
                           /\ \A i \in DOMAIN f.papers : "bibtex" \in DOMAIN f.papers[i]}

\* the statuses the remote sends to the attempts of one request of a run
RunScripts ==
    {<<200>>, <<429, 500, 200>>, <<NetFail>>, [i \in 1..(MaxAttempts - 1) |-> 429]}

RunAnthologyAnswers ==
    {a \in AnthologyAnswers : a.text # "@inproceedings{anthology-b}"}

\* An upstream that answers every request for a resource the same way
UnboundedRoster == <<Author("a1", NoneInt, NoneInt), Author("a2", NoneInt, NoneInt)>>

FixedWorlds ==
    {[fixed |-> TRUE, papers |-> [a1 |-> l1, a2 |-> l2],
      details |-> [p1 |-> Paper(r1, "ACL", NoneDict, 2020, NoneDate, <<"A. Author">>, {"ACL", "CorpusId"}),
                   p2 |-> Paper(r2, "ACL", NoneDict, 2020, NoneDate, <<"A. Author">>, {"ACL", "CorpusId"})],
      anthology |-> a] :
        l1 \in SeqsUpTo({Item(id) : id \in PaperIds}, MaxItems),
        l2 \in SeqsUpTo({Item(id) : id \in PaperIds}, MaxItems),
        r1 \in PrimaryIds("p1"), r2 \in PrimaryIds("p2"),
        a \in {a \in RunAnthologyAnswers : a.status_code # NetFail}}

AuthorResponses(author_info) ==
    IF upstream.fixed THEN {upstream.papers[author_info.s2id]} ELSE PaperLists(author_info)

PaperResponses(id) ==
    IF upstream.fixed THEN {upstream.details[id]} ELSE Details(id)

AnthologyResponses ==
    IF upstream.fixed THEN {upstream.anthology} ELSE RunAnthologyAnswers

-----------------------------------------------------------------------------
(* update_cache: lines 98-185 *)

NoCall == [fn |-> "none"]
NoRequests == [authors |-> {}, papers |-> {}, anthology |-> {}]
NoItem == [action |-> "none"]

\* the record of an item's iteration: how far it got (action), whether its paper
\* was in the cache and had a bibtex entry, and the requests made for it
Iterated(action, paper_dict) ==
    [action |-> action, item |-> paper_dict, in_cache |-> FALSE, had_bibtex |-> FALSE,
     calls |-> <<>>]

Init ==
    /\ call = NoCall
    /\ ret = NotReturned
    /\ \/ /\ upstream = [fixed |-> FALSE]
          /\ authors = UnboundedRoster
          /\ disk \in CacheFiles
          /\ pc = "load"
       \/ /\ upstream = [fixed |-> FALSE]
          /\ authors \in Rosters
          /\ disk \in RenderedCacheFiles
          /\ pc = "load"
       \/ /\ upstream \in FixedWorlds
          /\ authors = UnboundedRoster
          /\ disk \in RenderedCacheFiles
          /\ pc = "load"
       \* the script was started with --reset
       \/ /\ upstream = [fixed |-> FALSE]
          /\ authors = UnboundedRoster
          /\ disk \in RenderedCacheFiles
          /\ pc = "main"
    /\ paper_cache = <<>>
    /\ seen_papers = {}
    /\ author_no = 0
    /\ papers_for_author = <<>>
    /\ paper_id = ""
    /\ raised = NoException
    /\ run = 1
    /\ requested = NoRequests
    /\ last_item = NoItem
    /\ writes = 0
    /\ prev_disk = [kind |-> "absent"]
    /\ loaded = <<>>

\* an exception nothing catches ends the run
Raise(exception) ==
    /\ pc' = "failed"
    /\ raised' = exception

\* lines 299-304 with --reset: the cache file is replaced with an empty file
\* (created if it was absent), then update_cache is called
Reset ==
    /\ pc = "main"
    /\ disk' = [kind |-> "empty"]
    /\ pc' = "load"
    /\ UNCHANGED <<callVars, authors, upstream, paper_cache, seen_papers, author_no,
                   papers_for_author, paper_id, raised, run, requested, last_item, writes,
                   prev_disk, loaded>>

\* lines 104-124: a fresh paper_cache and seen_papers, then the load of the cache
\* file; json.load raises on a file that exists and is empty
Load ==
    /\ pc = "load"
    /\ seen_papers' = {}
    /\ IF disk.kind = "empty"
       THEN /\ Raise(JSONDecodeError)
            /\ UNCHANGED <<paper_cache, loaded, author_no>>
       ELSE /\ paper_cache' = load(disk)
            /\ loaded' = paper_cache'
            /\ UNCHANGED raised
            /\ IF authors = <<>>
               THEN pc' = "evict" /\ author_no' = 0
               ELSE pc' = "author" /\ author_no' = 1
    /\ UNCHANGED <<callVars, authors, upstream, disk, papers_for_author, paper_id,
                   run, requested, last_item, writes, prev_disk>>

\* lines 126-134: the request for the author's paper list
FetchAuthor ==
    /\ pc = "author"
    /\ LET s2id == authors[author_no].s2id IN
       \E script \in RunScripts, papers \in AuthorResponses(authors[author_no]) :
         LET r == return_request(script, [papers |-> papers]) IN
         /\ requested' = [requested EXCEPT !.authors = @ \cup {s2id}]
         /\ IF r.raised # NoException
            THEN Raise(r.raised) /\ UNCHANGED papers_for_author
            ELSE /\ papers_for_author' = r.data["papers"]
                 /\ pc' = "item"
                 /\ UNCHANGED raised
    /\ last_item' = NoItem
    /\ UNCHANGED <<callVars, authors, upstream, disk, paper_cache, seen_papers, author_no,
                   paper_id, run, writes, prev_disk, loaded>>

\* lines 135-150: the next item of the list, the tenure window, seen_papers.add
NextItem ==
    /\ pc = "item"
    /\ papers_for_author # <<>>
    /\ LET paper_dict == Head(papers_for_author)
           author_info == authors[author_no]
       IN  /\ paper_id' = paper_dict["paperId"]
           /\ papers_for_author' = Tail(papers_for_author)
           /\ IF \/ before_start(author_info.start_year, paper_dict)
                 \/ after_end(author_info.end_year, paper_dict)
              THEN /\ last_item' = Iterated("skipped", paper_dict)
                   /\ UNCHANGED <<pc, seen_papers>>
              ELSE /\ last_item' = Iterated("seen", paper_dict)
                   /\ seen_papers' = seen_papers \cup {paper_dict["paperId"]}
                   /\ pc' = "paper"
    /\ UNCHANGED <<callVars, authors, upstream, disk, paper_cache, author_no, raised, run,
                   requested, writes, prev_disk, loaded>>

\* a lookup that requests the details of a cached paper again
ReusePaper_Refetch ==
    /\ pc = "paper"
    /\ paper_id \in Keys(paper_cache)
    /\ \E script \in RunScripts, paper_dict \in PaperResponses(paper_id) :
         LET r == return_request(script, paper_dict) IN
         /\ requested' = [requested EXCEPT !.papers = @ \cup {paper_id}]
         /\ last_item' = [last_item EXCEPT
                             !.action = IF r.raised # NoException THEN "raised" ELSE "reused",
                             !.in_cache = TRUE,
                             !.calls = Append(@, "paper")]
         /\ IF r.raised # NoException
            THEN Raise(r.raised)
            ELSE pc' = "bibtex" /\ UNCHANGED raised
    /\ UNCHANGED <<callVars, authors, upstream, disk, paper_cache, seen_papers, author_no,
                   papers_for_author, paper_id, run, writes, prev_disk, loaded>>

\* lines 153-155: the paper is in the cache
ReusePaper ==
    /\ pc = "paper"
    /\ paper_id \in Keys(paper_cache)
    /\ pc' = "bibtex"
    /\ last_item' = [last_item EXCEPT !.action = "reused", !.in_cache = TRUE]
    /\ UNCHANGED <<callVars, authors, upstream, disk, paper_cache, seen_papers, author_no,
                   papers_for_author, paper_id, raised, run, requested, writes,
                   prev_disk, loaded>>

\* lines 157-163: the paper is not in the cache: its details are requested
FetchPaper ==
    /\ pc = "paper"
    /\ paper_id \notin Keys(paper_cache)
    /\ \E script \in RunScripts, paper_dict \in PaperResponses(paper_id) :
         LET r == return_request(script, paper_dict) IN
         /\ requested' = [requested EXCEPT !.papers = @ \cup {paper_id}]
         /\ last_item' = [last_item EXCEPT
                             !.action = IF r.raised # NoException THEN "raised" ELSE "fetched",
                             !.calls = Append(@, "paper")]
         /\ IF r.raised # NoException
            THEN Raise(r.raised) /\ UNCHANGED paper_cache
            ELSE /\ paper_cache' = SetItem(paper_cache, paper_id, r.data)
                 /\ pc' = "bibtex"
                 /\ UNCHANGED raised
    /\ UNCHANGED <<callVars, authors, upstream, disk, seen_papers, author_no,
                   papers_for_author, paper_id, run, writes, prev_disk, loaded>>

\* a loop body that logs a failed get_bibtex and goes on to the next item
CompleteBibtex_Swallow ==
    /\ pc = "bibtex"
    /\ LET paper_dict == Get(paper_cache, paper_id) IN
       IF "bibtex" \in DOMAIN paper_dict
       THEN /\ last_item' = [last_item EXCEPT !.action = "kept", !.had_bibtex = TRUE]
            /\ UNCHANGED <<paper_cache, requested>>
       ELSE \E anthology \in AnthologyResponses :
              LET r == get_bibtex(paper_dict, anthology) IN
              /\ requested' = [requested EXCEPT !.anthology =
                                  IF r.requests # <<>> THEN @ \cup {paper_id} ELSE @]
              /\ last_item' = [last_item EXCEPT
                                  !.action = IF r.raised # NoException THEN "raised" ELSE "rendered",
                                  !.calls = IF r.requests # <<>> THEN Append(@, "anthology") ELSE @]
              /\ IF r.raised # NoException
                 THEN UNCHANGED paper_cache
                 ELSE paper_cache' = SetItem(paper_cache, paper_id, WithBibtex(paper_dict, r.value))
    /\ pc' = "item"
    /\ UNCHANGED <<callVars, authors, upstream, disk, seen_papers, author_no,
                   papers_for_author, paper_id, raised, run, writes, prev_disk, loaded>>

\* a loop body that renders the bibtex entry of every paper it iterates
CompleteBibtex_Rerender ==
    /\ pc = "bibtex"
    /\ LET paper_dict == Get(paper_cache, paper_id) IN
       \E anthology \in AnthologyResponses :
         LET r == get_bibtex(paper_dict, anthology) IN
         /\ requested' = [requested EXCEPT !.anthology =
                             IF r.requests # <<>> THEN @ \cup {paper_id} ELSE @]
         /\ last_item' = [last_item EXCEPT
                             !.action = IF r.raised # NoException THEN "raised" ELSE "rendered",
                             !.had_bibtex = "bibtex" \in DOMAIN paper_dict,
                             !.calls = IF r.requests # <<>> THEN Append(@, "anthology") ELSE @]
         /\ IF r.raised # NoException
            THEN Raise(r.raised) /\ UNCHANGED paper_cache
            ELSE /\ paper_cache' = SetItem(paper_cache, paper_id,
                                           ("bibtex" :> r.value) @@ paper_dict)
                 /\ pc' = "item"
                 /\ UNCHANGED raised
    /\ UNCHANGED <<callVars, authors, upstream, disk, seen_papers, author_no,
                   papers_for_author, paper_id, run, writes, prev_disk, loaded>>

\* a loop body that renders the bibtex entry of the papers it fetched only
CompleteBibtex_OnlyFetched ==
    /\ pc = "bibtex"
    /\ LET paper_dict == Get(paper_cache, paper_id) IN
       IF "bibtex" \in DOMAIN paper_dict \/ last_item.in_cache
       THEN /\ pc' = "item"
            /\ last_item' = [last_item EXCEPT !.action = "kept",
                                              !.had_bibtex = "bibtex" \in DOMAIN paper_dict]
            /\ UNCHANGED <<paper_cache, raised, requested>>
       ELSE \E anthology \in AnthologyResponses :
              LET r == get_bibtex(paper_dict, anthology) IN
              /\ requested' = [requested EXCEPT !.anthology =
                                  IF r.requests # <<>> THEN @ \cup {paper_id} ELSE @]
              /\ last_item' = [last_item EXCEPT
                                  !.action = IF r.raised # NoException THEN "raised" ELSE "rendered",
                                  !.calls = IF r.requests # <<>> THEN Append(@, "anthology") ELSE @]
              /\ IF r.raised # NoException
                 THEN Raise(r.raised) /\ UNCHANGED paper_cache
                 ELSE /\ paper_cache' = SetItem(paper_cache, paper_id,
                                                WithBibtex(paper_dict, r.value))
                      /\ pc' = "item"
                      /\ UNCHANGED raised
    /\ UNCHANGED <<callVars, authors, upstream, disk, seen_papers, author_no,
                   papers_for_author, paper_id, run, writes, prev_disk, loaded>>

\* lines 165-170: the bibtex entry is created if the record has none
CompleteBibtex ==
    /\ pc = "bibtex"
    /\ LET paper_dict == Get(paper_cache, paper_id) IN
       IF "bibtex" \in DOMAIN paper_dict
       THEN /\ pc' = "item"
            /\ last_item' = [last_item EXCEPT !.action = "kept", !.had_bibtex = TRUE]
            /\ UNCHANGED <<paper_cache, raised, requested>>
       ELSE \E anthology \in AnthologyResponses :
              LET r == get_bibtex(paper_dict, anthology) IN
              /\ requested' = [requested EXCEPT !.anthology =
                                  IF r.requests # <<>> THEN @ \cup {paper_id} ELSE @]
              /\ last_item' = [last_item EXCEPT
                                  !.action = IF r.raised # NoException THEN "raised" ELSE "rendered",
                                  !.calls = IF r.requests # <<>> THEN Append(@, "anthology") ELSE @]
              /\ IF r.raised # NoException
                 THEN Raise(r.raised) /\ UNCHANGED paper_cache
                 ELSE /\ paper_cache' = SetItem(paper_cache, paper_id,
                                                WithBibtex(paper_dict, r.value))
                      /\ pc' = "item"
                      /\ UNCHANGED raised
    /\ UNCHANGED <<callVars, authors, upstream, disk, seen_papers, author_no,
                   papers_for_author, paper_id, run, writes, prev_disk, loaded>>

\* a loop that saves the cache only after the last author
Checkpoint_SkipWrite ==
    /\ pc = "item"
    /\ papers_for_author = <<>>
    /\ IF author_no < Len(authors)
       THEN pc' = "author" /\ author_no' = author_no + 1 /\ UNCHANGED <<disk, writes>>
       ELSE pc' = "evict" /\ disk' = write(paper_cache) /\ writes' = writes + 1
                         /\ UNCHANGED author_no
    /\ last_item' = NoItem
    /\ UNCHANGED <<callVars, authors, upstream, paper_cache, seen_papers, papers_for_author,
                   paper_id, raised, run, requested, prev_disk, loaded>>

\* a checkpoint that saves only the papers seen so far
Checkpoint_SeenOnly ==
    /\ pc = "item"
    /\ papers_for_author = <<>>
    /\ disk' = write(Filter(paper_cache, seen_papers))
    /\ writes' = writes + 1
    /\ IF author_no < Len(authors)
       THEN pc' = "author" /\ author_no' = author_no + 1
       ELSE pc' = "evict" /\ UNCHANGED author_no
    /\ last_item' = NoItem
    /\ UNCHANGED <<callVars, authors, upstream, paper_cache, seen_papers, papers_for_author,
                   paper_id, raised, run, requested, prev_disk, loaded>>

\* lines 172-174: the list is exhausted: the cache is saved, the next author follows
Checkpoint ==
    /\ pc = "item"
    /\ papers_for_author = <<>>
    /\ disk' = write(paper_cache)
    /\ writes' = writes + 1
    /\ IF author_no < Len(authors)
       THEN pc' = "author" /\ author_no' = author_no + 1
       ELSE pc' = "evict" /\ UNCHANGED author_no
    /\ last_item' = NoItem
    /\ UNCHANGED <<callVars, authors, upstream, paper_cache, seen_papers, papers_for_author,
                   paper_id, raised, run, requested, prev_disk, loaded>>

\* lines 176-185: the papers no author's list yielded are removed, the cache is saved
Evict ==
    /\ pc = "evict"
    /\ paper_cache' = Filter(paper_cache, seen_papers)
    /\ disk' = write(paper_cache')
    /\ writes' = writes + 1
    /\ pc' = "done"
    /\ UNCHANGED <<callVars, authors, upstream, seen_papers, author_no, papers_for_author,
                   paper_id, raised, run, requested, last_item, prev_disk, loaded>>

\* the script is started again on the file the run left (lines 290-304)
Rerun ==
    /\ pc = "done"
    /\ run < MaxRuns
    /\ upstream.fixed
    /\ run' = run + 1
    /\ prev_disk' = disk
    /\ pc' = "load"
    /\ paper_cache' = <<>>
    /\ seen_papers' = {}
    /\ author_no' = 0
    /\ paper_id' = ""
    /\ requested' = NoRequests
    /\ writes' = 0
    /\ UNCHANGED <<callVars, authors, upstream, disk, papers_for_author, raised, last_item,
                   loaded>>

Next ==
    \/ Reset
    \/ Load
    \/ FetchAuthor
    \/ NextItem
    \/ ReusePaper
    \/ FetchPaper
    \/ CompleteBibtex
    \/ Checkpoint
    \/ Evict
    \/ Rerun

Spec == Init /\ [][Next]_vars

-----------------------------------------------------------------------------
(* Properties of update_cache *)

\* C1: when a run has processed every author, the cache in memory holds only
\* papers that some author's list yielded in window during the run (no paper
\* loaded from the file that the run did not see is left), and the file written
\* last holds exactly the records of that cache, in its order.
C1_EvictionRemovesUnseen ==
    pc = "done" =>
        /\ Keys(paper_cache) \subseteq seen_papers
        /\ \A key \in Keys(loaded) \ seen_papers : key \notin Keys(paper_cache)
        /\ disk = write(paper_cache)
        /\ Len(disk.papers) = Cardinality(Keys(paper_cache))

\* a run ended after loading one paper it saw and one it did not
C1_Witness ==
    /\ pc = "done"
    /\ \E key \in Keys(loaded) : key \notin seen_papers
    /\ \E key \in Keys(loaded) : key \in seen_papers

ItemHandled == last_item.action \in {"kept", "rendered", "raised"}

\* C2 as claimed: for a paper that is in the cache when its item is processed, a
\* paper-details request is made if and only if the cached record has no bibtex,
\* and no request at all is made when it has one.
C2_RefetchIffNoBibtex ==
    (ItemHandled /\ last_item.in_cache) =>
        /\ ("paper" \in Range(last_item.calls)) <=> ~last_item.had_bibtex
        /\ last_item.had_bibtex => last_item.calls = <<>>

\* C2, amended: for a paper that is in the cache when its item is processed no
\* paper-details request is ever made. With a bibtex entry no request at all is
\* made for it; without one the only request is get_bibtex's request to the
\* Anthology, made exactly when the record has an ACL id and a CorpusId.
C2_CachedPaperNeverRefetched ==
    (last_item.action # "none" /\ last_item.in_cache) =>
        /\ "paper" \notin Range(last_item.calls)
        /\ last_item.action = "kept" => last_item.calls = <<>>
        /\ last_item.action \in {"rendered", "raised"} =>
              /\ ~last_item.had_bibtex
              /\ last_item.calls \in {<<>>, <<"anthology">>}
              /\ last_item.calls = <<"anthology">> <=>
                    {"ACL", "CorpusId"} \subseteq DOMAIN Get(paper_cache, paper_id)["externalIds"]

\* a cached record without bibtex was completed from the Anthology
C2_Witness ==
    /\ last_item.action = "rendered"
    /\ last_item.in_cache
    /\ last_item.calls = <<"anthology">>
    /\ "bibtex" \notin DOMAIN Get(loaded, paper_id)

KnownYear(paper_dict) == "year" \in DOMAIN paper_dict /\ paper_dict["year"] # NoneInt

OutOfWindow(author_info, paper_dict) ==
    /\ KnownYear(paper_dict)
    /\ \/ author_info.start_year # NoneInt /\ paper_dict["year"] < author_info.start_year
       \/ author_info.end_year # NoneInt /\ paper_dict["year"] > author_info.end_year

Skips(start_year, end_year, paper_dict) ==
    before_start(start_year, paper_dict) \/ after_end(end_year, paper_dict)

TenureExamples ==
    /\ Skips(2015, 2020, ItemOf("p1", 2014))
    /\ ~Skips(2015, 2020, ItemOf("p1", 2015))
    /\ ~Skips(2015, 2020, ItemOf("p1", 2020))
    /\ Skips(2015, 2020, ItemOf("p1", 2021))
    /\ ~Skips(2015, 2020, ItemOf("p1", NoneInt))
    /\ ~Skips(2015, 2020, Item("p1"))

\* C3: the loop skips an item (the paper is not added to seen_papers, nothing
\* is requested or cached for it) exactly when its year is known and is before
\* an existing start year or after an existing end year; every other item,
\* among them the ones whose year equals a bound or is unknown, is marked seen
\* and goes on to the cache lookup. For 2015-2020: 2014 and 2021 are skipped,
\* 2015, 2020 and an unknown year are kept.
C3_TenureWindow ==
    /\ []TenureExamples
    /\ [][(pc = "item" /\ papers_for_author # <<>>) =>
            LET paper_dict == Head(papers_for_author) IN
            IF OutOfWindow(authors[author_no], paper_dict)
            THEN /\ pc' = "item"
                 /\ last_item'.action = "skipped"
                 /\ seen_papers' = seen_papers
                 /\ requested' = requested
                 /\ paper_cache' = paper_cache
            ELSE /\ pc' = "paper"
                 /\ paper_dict["paperId"] \in seen_papers'
                 /\ paper_id' = paper_dict["paperId"]]_vars

\* a 2014 paper of an author here 2015-2020 was skipped
C3_Witness ==
    /\ last_item.action = "skipped"
    /\ last_item.item = ItemOf("p1", 2014)
    /\ authors[author_no].start_year = 2015
    /\ authors[author_no].end_year = 2020
    /\ "p1" \notin seen_papers

\* C4 as claimed: a second run against the same people.json and an upstream
\* that answers as before leaves the cache file as the first run left it and
\* requests no paper details.
C4_SecondRunChangesNothing ==
    (pc = "done" /\ run > 1) =>
        /\ disk = prev_disk
        /\ requested.papers = {}

CompletedAuthors ==
    IF pc \in {"evict", "done"} THEN Len(authors)
    ELSE IF author_no = 0 THEN 0        \* before the loop over the authors
    ELSE author_no - 1

C5_WriteCount == writes = CompletedAuthors + (IF pc = "done" THEN 1 ELSE 0)

\* while an author is processed, the file written after the previous author is
\* the cache without this author's changes: its records are the first records
\* of the cache, each as cached or as cached before its bibtex was added
C5_FileBehindCache ==
    (pc \in {"author", "item", "paper", "bibtex", "failed"} /\ writes > 0) =>
        /\ Len(disk.papers) <= Len(paper_cache)
        /\ \A i \in DOMAIN disk.papers :
              LET stored == disk.papers[i]
                  cached == paper_cache[i].value
              IN  \/ cached = stored
                  \/ /\ "bibtex" \notin DOMAIN stored
                     /\ "bibtex" \in DOMAIN cached
                     /\ cached = WithBibtex(stored, cached["bibtex"])

C5_Steps ==
    /\ (pc = "item" /\ papers_for_author = <<>>) =>
            disk' = write(paper_cache) /\ paper_cache' = paper_cache
    /\ pc = "evict" => disk' = write(paper_cache')
    /\ ~(pc \in {"main", "evict"} \/ (pc = "item" /\ papers_for_author = <<>>)) => disk' = disk
    /\ pc' = "failed" => disk' = disk /\ writes' = writes

\* C5: the cache file is rewritten once when an author's list is exhausted, with
\* the whole cache, and once more after the eviction, and by no other step of
\* update_cache (the truncation of --reset comes before it is called). A
\* run that fails while the k-th author is processed leaves the file written
\* after author k-1 (the file it started from when k = 1): it holds every
\* record of the cache as of that write, and only changes made for the k-th
\* author are missing from it.
C5_Checkpoints ==
    /\ [](C5_WriteCount /\ C5_FileBehindCache)
    /\ [][C5_Steps]_vars

\* the request for the second author's new paper failed after the first
\* author's paper was saved
C5_Witness ==
    /\ pc = "failed"
    /\ author_no = 2
    /\ raised.type = "Exception"
    /\ writes = 1
    /\ Len(disk.papers) = 1
    /\ Len(paper_cache) = 1
    /\ last_item.action = "raised"
    /\ last_item.calls = <<"paper">>

LacksCorpusId(paper_dict) == "CorpusId" \notin DOMAIN paper_dict["externalIds"]

\* C10: get_bibtex on a record without CorpusId raises (KeyError on the lookup
\* of line 234, whether or not the record has an ACL id) and update_cache lets
\* the error end the run: no record without a CorpusId gets a bibtex entry in
\* the run, none is passed over without one, and the run that meets one fails
\* with that KeyError before any request to the Anthology.
C10_MissingCorpusIdSurfaces ==
    /\ \A i \in DOMAIN paper_cache :
          LET entry == paper_cache[i] IN
          (LacksCorpusId(entry.value) /\ "bibtex" \in DOMAIN entry.value) =>
              /\ entry.key \in Keys(loaded)
              /\ Get(loaded, entry.key) = entry.value
    /\ pc \in {"author", "item", "evict", "done"} =>
          \A i \in DOMAIN paper_cache :
              (paper_cache[i].key \in seen_papers /\ LacksCorpusId(paper_cache[i].value))
                  => "bibtex" \in DOMAIN paper_cache[i].value
    /\ (pc = "failed" /\ last_item.action = "raised" /\ paper_id \in Keys(paper_cache)) =>
          LET paper_dict == Get(paper_cache, paper_id) IN
          /\ "bibtex" \notin DOMAIN paper_dict
          /\ LacksCorpusId(paper_dict) =>
                /\ raised = KeyError("CorpusId")
                /\ "anthology" \notin Range(last_item.calls)
          /\ raised = KeyError("CorpusId") => LacksCorpusId(paper_dict)

\* the details just fetched have an ACL id and no CorpusId: the run failed
C10_Witness ==
    /\ pc = "failed"
    /\ raised = KeyError("CorpusId")
    /\ last_item.calls = <<"paper">>
    /\ "ACL" \in DOMAIN Get(paper_cache, paper_id)["externalIds"]
    /\ "bibtex" \notin DOMAIN Get(paper_cache, paper_id)

-----------------------------------------------------------------------------
(* Properties of return_request and get_bibtex *)

Returned(fn) == call.fn = fn /\ ret # NotReturned

\* k >= 0 statuses 429, then 200
RateLimitedThenOk(script) ==
    /\ script # <<>>
    /\ script[Len(script)] = 200
    /\ \A i \in 1..(Len(script) - 1) : script[i] = 429

\* the sleeps of line 53
BackoffSleeps(sleeps) == SelectSeq(sleeps, LAMBDA s : s.line = 53)

\* C6: a call answered by k 429s and then a 200 (k = 0..8, the ninth attempt
\* being the last) makes k + 1 requests and exactly k backoff sleeps, each
\* longer than the one before, and returns the body of the 200 response.
C6_BackoffThenPayload ==
    (Returned("return_request") /\ RateLimitedThenOk(call.script)) =>
        LET k == Len(call.script) - 1
            backoff == BackoffSleeps(ret.sleeps)
        IN  /\ ret.raised = NoException
            /\ ret.data = call.body
            /\ ret.requests = k + 1
            /\ Len(backoff) = k
            /\ \A i \in 1..(k - 1) : backoff[i].ms < backoff[i + 1].ms

\* three 429s and a 200
C6_Witness ==
    /\ Returned("return_request")
    /\ call.script = <<429, 429, 429, 200>>
    /\ ret.raised = NoException
    /\ Len(BackoffSleeps(ret.sleeps)) = 3

\* the exception names the status code
Carries(exception, status_code) ==
    \/ "status_code" \in DOMAIN exception /\ exception["status_code"] = status_code
    \/ \E i \in DOMAIN exception.args : exception.args[i] = ToString(status_code)

\* C7 as claimed: a call makes at most nine requests, and when every one of
\* them is answered and none is answered 200 it raises an error that carries
\* the last status code.
C7_ErrorCarriesLastStatus ==
    (Returned("return_request") /\ NetFail \notin Range(call.script)) =>
        /\ ret.requests <= MaxAttempts - 1
        /\ ret.status_code # 200 =>
              /\ ret.raised # NoException
              /\ Carries(ret.raised, ret.status_code)

HasKeys(cache_dict, keys) == keys \subseteq DOMAIN cache_dict["externalIds"]

\* C8 as claimed: for a record with an ACL id and an Anthology that answers
\* 200, get_bibtex returns the Anthology's text, whatever else the record holds.
C8_AnthologyVerbatimAlways ==
    (Returned("get_bibtex") /\ HasKeys(call.cache_dict, {"ACL"})
        /\ call.anthology.status_code = 200) =>
        /\ ret.raised = NoException
        /\ ret.value = [text |-> call.anthology.text]

\* C8, amended: for a record with an ACL id and a CorpusId and an Anthology
\* that answers 200, get_bibtex requests the Anthology's URL for the ACL id
\* and returns the text of the answer, whatever the other fields are; without a
\* CorpusId it raises KeyError and requests nothing.
C8_AnthologyVerbatim ==
    (Returned("get_bibtex") /\ HasKeys(call.cache_dict, {"ACL"})
        /\ call.anthology.status_code = 200) =>
        IF HasKeys(call.cache_dict, {"CorpusId"})
        THEN /\ ret.raised = NoException
             /\ ret.value = [text |-> call.anthology.text]
             /\ ret.requests =
                  <<Format(ANTHOLOGY_TEMPLATE, call.cache_dict["externalIds"]["ACL"])>>
        ELSE /\ ret.raised = KeyError("CorpusId")
             /\ ret.requests = <<>>

\* a record with venue, journal, year and date got the Anthology's text
C8_Witness ==
    /\ Returned("get_bibtex")
    /\ HasKeys(call.cache_dict, {"ACL", "CorpusId"})
    /\ call.anthology.status_code = 200
    /\ call.cache_dict["venue"] = ""
    /\ call.cache_dict["publicationDate"] # NoneDate
    /\ ret.raised = NoException
    /\ ret.value = [text |-> "@inproceedings{anthology-b}"]

WithoutAcl(cache_dict) ==
    [cache_dict EXCEPT
        !["externalIds"] = [k \in (DOMAIN cache_dict["externalIds"]) \ {"ACL"} |->
                                cache_dict["externalIds"][k]]]

\* C9 as claimed: for a record with an ACL id (and a CorpusId) whose Anthology
\* request fails, get_bibtex does not raise and returns the text it returns
\* for the same record without the ACL id.
C9_FallbackSameAsWithoutAcl ==
    (Returned("get_bibtex") /\ HasKeys(call.cache_dict, {"ACL", "CorpusId"})
        /\ call.anthology.status_code # 200) =>
        /\ ret.raised = NoException
        /\ ret.value = get_bibtex(WithoutAcl(call.cache_dict), call.anthology).value

-----------------------------------------------------------------------------
(* Properties of the request helper's argument *)

\* C11 as claimed: return_request called with a URL made from an empty author
\* id raises InvalidRequestError and makes no request.
C11_EmptyIdRejected ==
    (Returned("return_request") /\ call.url.id = "") =>
        /\ ret.raised # NoException
        /\ ret.raised.type = "InvalidRequestError"
        /\ ret.requests = 0

-----------------------------------------------------------------------------
(* Properties of convert_to_bib *)

Converted == Returned("convert_to_bib") /\ call.file.kind = "json"

PaperIdsOf(papers) == {papers[i]["paperId"] : i \in DOMAIN papers}

Years(papers) == [i \in DOMAIN papers |-> papers[i]["year"]]

\* the position of the first record of an id in a list
FirstIndex(papers, id) ==
    CHOOSE i \in DOMAIN papers :
        /\ papers[i]["paperId"] = id
        /\ \A j \in 1..(i - 1) : papers[j]["paperId"] # id

\* newest year first, papers of one year in the order of the cache file
OrderedAsClaimed(out, file_papers) ==
    \A i, j \in DOMAIN out :
        i < j =>
            /\ get_year(out[i]) >= get_year(out[j])
            /\ get_year(out[i]) = get_year(out[j]) =>
                  FirstIndex(file_papers, out[i]["paperId"])
                      < FirstIndex(file_papers, out[j]["paperId"])

\* C12 as claimed: convert_to_bib prints one entry for every paper id of the
\* cache file that has a record with a resolvable year, and no other, newest
\* year first and papers of one year in file order.
C12_AssemblesEveryDatedEntry ==
    Converted =>
        LET file_papers == call.file.papers
            dated == {file_papers[i]["paperId"] : i \in
                         {i \in DOMAIN file_papers : get_year(file_papers[i]) # NoneInt}}
        IN  /\ ret.raised.type # "KeyError"
            /\ PaperIdsOf(ret.papers) = dated
            /\ Len(ret.bibfile.entries) = Cardinality(dated)
            /\ OrderedAsClaimed(ret.papers, file_papers)

\* the record convert_to_bib keeps of a paper id: the last one in the file
LastRecord(file_papers, id) ==
    file_papers[CHOOSE i \in DOMAIN file_papers :
                    /\ file_papers[i]["paperId"] = id
                    /\ \A j \in (i + 1)..Len(file_papers) : file_papers[j]["paperId"] # id]

\* C12, amended: convert_to_bib keeps of every paper id the last record of the
\* file, at the place of the first, and drops the ids whose record has no
\* resolvable year; it orders the rest newest year first, papers of one year in
\* file order. When all of them have a bibtex it prints exactly their bibtex
\* entries in that order, one per id; otherwise it fails with KeyError at the
\* first without one, having printed the entries ahead of it. Years
\* [2020, 2019, 2020, None] come out as [2020, 2020, 2019], the first 2020
\* ahead of the third.
C12_AssemblesDatedEntries ==
    Converted =>
        LET file_papers == call.file.papers
            kept == {LastRecord(file_papers, id) : id \in PaperIdsOf(file_papers)}
            dated == {r \in kept : get_year(r) # NoneInt}
            out == ret.papers
            rendered == \A r \in dated : "bibtex" \in DOMAIN r
        IN  /\ Range(out) = dated
            /\ Len(out) = Cardinality(dated)
            /\ Cardinality(PaperIdsOf(out)) = Len(out)
            /\ OrderedAsClaimed(out, file_papers)
            /\ rendered =>
                  /\ ret.raised.type # "KeyError"
                  /\ ret.bibfile.entries = [i \in DOMAIN out |-> Printed(out[i]["bibtex"])]
            /\ ~rendered =>
                  /\ ret.raised = KeyError("bibtex")
                  /\ \E k \in DOMAIN out :
                        /\ "bibtex" \notin DOMAIN out[k]
                        /\ ret.bibfile.entries = [i \in 1..(k - 1) |-> Printed(out[i]["bibtex"])]
                  /\ ret.bibfile.appended = <<>>
            /\ (Years(file_papers) = <<2020, 2019, 2020, NoneInt>>
                  /\ Cardinality(PaperIdsOf(file_papers)) = 4) =>
                  /\ Years(out) = <<2020, 2020, 2019>>
                  /\ out[1] = file_papers[1]
                  /\ out[2] = file_papers[3]

\* the store of years [2020, 2019, 2020, None], every record with its bibtex
C12_Witness ==
    /\ Converted
    /\ Years(call.file.papers) = <<2020, 2019, 2020, NoneInt>>
    /\ Cardinality(PaperIdsOf(call.file.papers)) = 4
    /\ \A i \in DOMAIN call.file.papers : "bibtex" \in DOMAIN call.file.papers[i]
    /\ ret.raised = NoException
    /\ Len(ret.bibfile.entries) = 3

-----------------------------------------------------------------------------
(* Properties of update_cache: the bibtex entries *)

\* the papers the run loaded with a bibtex entry
LoadedRendered == {key \in Keys(loaded) : "bibtex" \in DOMAIN Get(loaded, key)}

\* C13: a paper the run loaded from the cache file with a bibtex entry keeps,
\* for as long as it is in the cache during the run and in the cache the run
\* ends with, the record it was loaded with, bibtex included; the file the run
\* ends with holds that record; and iterating the paper calls neither
\* get_bibtex nor the network. A paper is identified by its key in the cache.
C13_RenderedCitationKept ==
    pc # "load" =>
        /\ \A key \in LoadedRendered :
              key \in Keys(paper_cache) => Get(paper_cache, key) = Get(loaded, key)
        /\ (last_item # NoItem /\ paper_id \in LoadedRendered) =>
              /\ last_item.action \in {"skipped", "seen", "reused", "kept"}
              /\ last_item.calls = <<>>
        /\ pc = "done" =>
              \A key \in LoadedRendered \cap Keys(paper_cache) :
                  \E i \in DOMAIN disk.papers : disk.papers[i] = Get(loaded, key)

\* a run ended that kept a paper loaded with its bibtex and rendered another
C13_Witness ==
    /\ pc = "done"
    /\ \E key \in LoadedRendered : key \in Keys(paper_cache) /\ key \in seen_papers
    /\ \E key \in Keys(paper_cache) : key \notin Keys(loaded)
    /\ requested.anthology # {}

-----------------------------------------------------------------------------
(* Properties of return_request: failures and delays *)

\* C14 as claimed: whenever the remote has a 200 for one of the nine attempts,
\* whatever comes before it (other statuses or requests that fail), the call
\* returns the body of the 200 response and raises nothing.
C14_FailuresRecovered ==
    (Returned("return_request") /\ 200 \in Range(call.script)) =>
        /\ ret.raised = NoException
        /\ ret.data = call.body

-----------------------------------------------------------------------------
(* Properties of convert_to_bib: the legacy bibliography *)

\* every record convert_to_bib is to print has its bibtex
AllRendered(papers) == \A i \in DOMAIN papers : "bibtex" \in DOMAIN papers[i]

\* C15 as claimed: when the request for the legacy bibliography fails (an
\* answer other than 200, or no answer), convert_to_bib still ends without
\* raising; the file holds the bibtex of every record it was to print and
\* the legacy bibliography adds no text to it.
C15_LegacyFailureNotFatal ==
    (Converted /\ AllRendered(ret.papers) /\ call.legacy.status_code # 200) =>
        /\ ret.raised = NoException
        /\ ret.bibfile.entries = [i \in DOMAIN ret.papers |-> Printed(ret.papers[i]["bibtex"])]
        /\ ret.bibfile.appended = << <<>> >>

\* the sleep that follows the i-th answer of a call is the i-th sleep
SleepAfter(i) == ret.sleeps[i]

\* C16 as claimed: a 429 is followed by a sleep of 1 s before the first retry,
\* 2 s before the second, 4 s before the third, ...; any other status but 200
\* by a sleep of 0.5 s.
C16_BackoffFromOneSecond ==
    Returned("return_request") =>
        \A i \in DOMAIN ret.sleeps :
            /\ call.script[i] = 429 => SleepAfter(i).ms = 1000 * 2 ^ (i - 1)
            /\ call.script[i] \notin {200, 429} => SleepAfter(i).ms = 500

\* C16, amended: a 429 answer to the n-th attempt is followed by a sleep of
\* 2 ** n seconds (2 s before the first retry, then 4 s, 8 s, ...), counting
\* every attempt of the call; any other status but 200 is followed by a sleep
\* of 0.5 s whatever the attempt; every answer is followed by exactly one sleep.
C16_BackoffSchedule ==
    Returned("return_request") =>
        /\ Len(ret.sleeps) = IF ret.raised = ConnectionError THEN ret.requests - 1
                             ELSE ret.requests
        /\ \A i \in DOMAIN ret.sleeps :
              /\ call.script[i] = 429 => SleepAfter(i) = [line |-> 53, ms |-> 1000 * 2 ^ i]
              /\ call.script[i] \notin {200, 429} => SleepAfter(i) = [line |-> 56, ms |-> 500]
              /\ call.script[i] = 200 => SleepAfter(i) = [line |-> 62, ms |-> 500]

\* 429, 500, 429, 200: sleeps of 2 s, 0.5 s, 8 s and the pacing delay
C16_Witness ==
    /\ Returned("return_request")
    /\ call.script = <<429, 500, 429, 200>>
    /\ ret.raised = NoException
    /\ [i \in DOMAIN ret.sleeps |-> ret.sleeps[i].ms] = <<2000, 500, 8000, 500>>

HasBibtex(paper_dict) == "bibtex" \in DOMAIN paper_dict

\* C17: when a run has processed every author and evicted, every record of
\* the cache, and of the file it wrote, has a bibtex entry, the records
\* fetched in the run and the records loaded without one alike. During the
\* run every paper seen has its entry once its iteration is over.
C17_CompletedRunAllRendered ==
    /\ pc = "done" =>
          /\ \A i \in DOMAIN paper_cache : HasBibtex(paper_cache[i].value)
          /\ \A i \in DOMAIN disk.papers : HasBibtex(disk.papers[i])
    /\ pc \in {"author", "item", "evict"} =>
          \A i \in DOMAIN paper_cache :
              paper_cache[i].key \in seen_papers => HasBibtex(paper_cache[i].value)

\* a run ended with a paper it fetched and a paper it loaded without bibtex
C17_Witness ==
    /\ pc = "done"
    /\ \E key \in Keys(paper_cache) : key \notin Keys(loaded)
    /\ \E key \in Keys(paper_cache) :
          /\ key \in Keys(loaded)
          /\ ~HasBibtex(Get(loaded, key))
          /\ HasBibtex(Get(paper_cache, key))

-----------------------------------------------------------------------------
(* Properties of the cache file *)

\* C18 as claimed: whatever the cache holds at any point of a run, writing it
\* and loading the file gives the same OrderedDict: the same keys in the same
\* order, each with the same record.
C18_SaveLoadRoundTrip == load(write(paper_cache)) = paper_cache

\* C19 as claimed: a run started with --reset loads the file it has just
\* emptied as an empty cache: the load raises nothing and the run goes on to
\* the authors with an empty paper_cache.
C19_ResetLoadsEmptyCache ==
    (disk.kind = "empty" /\ pc \notin {"main", "load"}) =>
        /\ pc # "failed"
        /\ raised = NoException
        /\ loaded = <<>>

\* the record of the file is the record loaded, or that record with the bibtex
\* entry the run added
SameOrRendered(stored, was_loaded) ==
    \/ stored = was_loaded
    \/ /\ ~HasBibtex(was_loaded)
       /\ HasBibtex(stored)
       /\ stored = WithBibtex(was_loaded, stored["bibtex"])

\* C20: from the load to the eviction, and in a run that failed, the cache
\* holds every paper it was loaded with, at the place it was loaded at. The
\* file is the one the run started from while no checkpoint was written; after
\* a checkpoint, its i-th record is the i-th record loaded (with its bibtex if
\* the run added one), so every record loaded is in it, in the order of the
\* load and ahead of every record the run inserted.
C20_NoEvictionBeforeFinalPass ==
    (pc \in {"author", "item", "paper", "bibtex", "evict", "failed"} /\ disk.kind # "empty") =>
        /\ Len(paper_cache) >= Len(loaded)
        /\ \A i \in DOMAIN loaded :
              /\ paper_cache[i].key = loaded[i].key
              /\ SameOrRendered(paper_cache[i].value, loaded[i].value)
        /\ IF writes = 0
           THEN load(disk) = loaded
           ELSE /\ Len(disk.papers) >= Len(loaded)
                /\ \A i \in DOMAIN loaded : SameOrRendered(disk.papers[i], loaded[i].value)

\* a run failed after a checkpoint that holds a paper no list had yielded and,
\* behind the papers loaded, a paper the run inserted
C20_Witness ==
    /\ pc = "failed"
    /\ writes >= 1
    /\ \E key \in Keys(loaded) : key \notin seen_papers
    /\ Len(disk.papers) > Len(loaded)

====
